---- MODULE Spec2Model ----
(***************************************************************************)
(* Betting backend (src/main.py): users, markets and bets kept in a        *)
(* document store; create_user, create_market, place_bet and settle_market *)
(* are request handlers that run in a thread pool, so the store operations *)
(* of two requests may interleave.  Each action below is one store         *)
(* operation of one handler together with the local computation that       *)
(* follows it up to the next store operation or the handler's return.      *)
(*                                                                         *)
(* Numbers: stake, odds and potential_payout are decimals with two places, *)
(* held as integers in hundredths (odds 1.8 is 180, stake 100 is 10000).   *)
(* A timestamp field holds the number of times it has been written, 0 for  *)
(* a field never set: readings of datetime.now increase, so a field that   *)
(* is written again changes, and the program compares no two timestamps.   *)
(***************************************************************************)
EXTENDS Integers, Sequences, FiniteSets, TLC

\* ---------------------------------------------------------------- bounds
\* Plain requests served one after the other (SeqSpec).
MaxMarkets == 2
MaxBets == 2
MaxUsers == 1
\* Requests with every kind of input, one after the other (InputSpec).
VariedMarkets == 1
VariedBets == 1
\* Requests served concurrently (Spec).
NumRequests == 2
ConcMarkets == 1
ConcBets == 2

Procs == 1..NumRequests

\* ---------------------------------------------------------------- inputs
None == "none"

\* An id string as a request carries it: n = 0 is a string that is no 24-digit
\* hex number; otherwise the hex digits of object id n, written in lower case
\* (as str(ObjectId) prints them) or, up = TRUE, in upper case.
BadId == [n |-> 0, up |-> FALSE]
Lower(n) == [n |-> n, up |-> FALSE]
Upper(n) == [n |-> n, up |-> TRUE]

\* Outcome lists of create_market requests.
TwoWay == << [key |-> "A", label |-> "Team A", odds |-> 180],
             [key |-> "B", label |-> "Team B", odds |-> 200] >>
Twice == << [key |-> "A", label |-> "a", odds |-> 250],
            [key |-> "A", label |-> "a2", odds |-> 300] >>
Even == << [key |-> "A", label |-> "a", odds |-> 100] >>
Incomplete == << [key |-> "A", label |-> "a"] >>

\* Well-formed requests: ids as the store prints them and the first market's
\* id also in upper case, keys of the market's outcomes, a stake of 0.07.
Plain ==
    [market_ids |-> {Upper(1)} \cup {Lower(n) : n \in 1..MaxMarkets},
     user_ids |-> {Lower(n) : n \in 1..MaxUsers},
     keys |-> {"A", "B"},
     stakes |-> {7},
     game_types |-> {"cricket"},
     outcomes |-> {TwoWay},
     markets |-> MaxMarkets, bets |-> MaxBets, users |-> MaxUsers]

\* Requests of every kind: malformed ids, both spellings of an id, "C" the
\* key of no outcome, stakes -1.00, 0, 0.07 and 100.00, an unknown game type,
\* outcome lists that are empty, incomplete, repeat a key, or give odds 1.0.
Varied ==
    [market_ids |-> {BadId, Upper(1)} \cup {Lower(n) : n \in 1..VariedMarkets},
     user_ids |-> {BadId} \cup {Lower(n) : n \in 1..MaxUsers},
     keys |-> {"A", "C"},
     stakes |-> {-100, 0, 7, 10000},
     game_types |-> {"cricket", "poker"},
     outcomes |-> {TwoWay, Twice, Even, Incomplete, << >>},
     markets |-> VariedMarkets, bets |-> VariedBets, users |-> MaxUsers]

\* Well-formed requests served concurrently.
Concurrent ==
    [market_ids |-> {Lower(n) : n \in 1..ConcMarkets},
     user_ids |-> {Lower(n) : n \in 1..MaxUsers},
     keys |-> {"A", "B"},
     stakes |-> {7},
     game_types |-> {"cricket"},
     outcomes |-> {TwoWay},
     markets |-> ConcMarkets, bets |-> ConcBets, users |-> MaxUsers]

\* ----------------------------------------------------------------- state
VARIABLES
    users,      \* collection "user": sequence of documents, _id = index
    markets,    \* collection "market"
    bets,       \* collection "bet"
    req         \* per request slot: position, inputs, locals, result

vars == <<users, markets, bets, req>>

Store == [users |-> users, markets |-> markets, bets |-> bets]

Idle ==
    [pc |-> "idle", op |-> None, market_id |-> BadId, user_id |-> BadId,
     outcome_key |-> None, stake |-> 0, market |-> 0, outcome |-> << >>,
     cursor |-> << >>, result |-> None, snap |-> None, writes |-> {}]

\* ------------------------------------------------------------ pure parts
\* oid: ObjectId(id_str); 0 stands for the HTTP 400 "Invalid ID format".
\* ObjectId parses hex digits of either case to the same id.
oid(id_str) == id_str.n

\* find_one({"_id": id}) on a collection: the document's index, 0 if absent.
find_one(coll, id) == IF id \in DOMAIN coll THEN id ELSE 0

\* market.get("status") != "open"
NotOpenAlways(m) == FALSE
NotOpen(m) == m.status # "open"

\* next((o for o in outcomes if o.get("key") == key), None): first match.
RECURSIVE FirstMatch(_, _)
FirstMatch(outcomes, key) ==
    IF outcomes = << >> THEN << >>
    ELSE IF "key" \in DOMAIN Head(outcomes) /\ Head(outcomes).key = key
         THEN << Head(outcomes) >>
         ELSE FirstMatch(Tail(outcomes), key)

getOutcomeAny(m, key) == IF m.outcomes = << >> THEN << >> ELSE << Head(m.outcomes) >>
getOutcome(m, key) == FirstMatch(m.outcomes, key)

\* round(x, 2) of x given in ten-thousandths, result in hundredths.  The
\* product is a binary float: a decimal tie falls to either side.
round2(x) ==
    LET q == x \div 100
        r == x % 100
    IN  IF r < 50 THEN {q} ELSE IF r > 50 THEN {q + 1} ELSE {q, q + 1}

PotentialTruncated(stake, odds) == {(stake * odds) \div 100}
Potential(stake, odds) == round2(stake * odds)

\* "won" if b.get("outcome_key") == winning_key else "lost"
new_status_swapped(b, winning_key) == IF b.outcome_key = winning_key THEN "lost" ELSE "won"
new_status(b, winning_key) == IF b.outcome_key = winning_key THEN "won" ELSE "lost"

\* update_one $set on the market document.
MarketSetClosed(m, key) ==
    [m EXCEPT !.status = "closed", !.settled_outcome_key = key, !.settled_at = @ + 1]
MarketSetNothing(m, key) == m
MarketSet(m, key) ==
    [m EXCEPT !.status = "settled", !.settled_outcome_key = key, !.settled_at = @ + 1]

\* update_one $set on a bet document.
BetSetAll(b, st) ==
    [b EXCEPT !.status = st, !.updated_at = @ + 1, !.potential_payout = 0]
BetSet(b, st) == [b EXCEPT !.status = st, !.updated_at = @ + 1]

\* find({"market_id": market_id}) on "bet": the matching documents (their
\* _id and outcome_key are what the loop reads), in insertion order.
RECURSIVE Select(_, _, _)
Select(coll, i, market_id) ==
    IF i > Len(coll) THEN << >>
    ELSE (IF coll[i].market_id = market_id
          THEN << [_id |-> i, outcome_key |-> coll[i].outcome_key] >>
          ELSE << >>) \o Select(coll, i + 1, market_id)

RECURSIVE SelectAll(_, _, _)
SelectAll(coll, i, market_id) ==
    IF i > Len(coll) THEN << >>
    ELSE << [_id |-> i, outcome_key |-> coll[i].outcome_key] >>
         \o SelectAll(coll, i + 1, market_id)

FindBetsAll(coll, market_id) == SelectAll(coll, 1, market_id)
FindBets(coll, market_id) == Select(coll, 1, market_id)

\* create_document(kind, doc): insert, the new _id is the next index.
create_document(coll, doc) == Append(coll, doc)

\* ------------------------------------------------------------- handlers
Finish(p, r, res) == [r EXCEPT !.pc = "done", !.result = res]

\* POST /api/users
create_user(p) ==
    /\ req[p].pc = "idle"
    /\ users' = create_document(users,
            [username |-> "u", email |-> None, created_at |-> 1,
             is_active |-> TRUE, balance |-> 0])
    /\ req' = [req EXCEPT ![p] = [Idle EXCEPT !.pc = "done", !.op = "create_user",
                  !.result = "ok", !.snap = Store,
                  !.writes = {<<"user", Len(users) + 1>>}]]
    /\ UNCHANGED <<markets, bets>>

\* POST /api/markets
create_market(p, game_type, outcomes) ==
    LET r == [Idle EXCEPT !.op = "create_market", !.snap = Store] IN
    /\ req[p].pc = "idle"
    /\ IF game_type \notin {"cricket", "matka", "other"}
       THEN /\ req' = [req EXCEPT ![p] = Finish(p, r, "InvalidGameType")]
            /\ UNCHANGED markets
       ELSE IF outcomes = << >>
       THEN /\ req' = [req EXCEPT ![p] = Finish(p, r, "EmptyOutcomes")]
            /\ UNCHANGED markets
       ELSE IF \E i \in DOMAIN outcomes :
                  ~({"key", "label", "odds"} \subseteq DOMAIN outcomes[i])
       THEN /\ req' = [req EXCEPT ![p] = Finish(p, r, "IncompleteOutcome")]
            /\ UNCHANGED markets
       ELSE /\ markets' = create_document(markets,
                    [game_type |-> game_type, title |-> "t", outcomes |-> outcomes,
                     status |-> "open", start_time |-> None, created_at |-> 1,
                     settled_outcome_key |-> None, settled_at |-> 0])
            /\ req' = [req EXCEPT ![p] =
                    Finish(p, [r EXCEPT !.writes = {<<"market", Len(markets) + 1>>}], "ok")]
    /\ UNCHANGED <<users, bets>>

\* POST /api/bets, up to the outcome lookup (lines 129-138).
place_bet(p, user_id, market_id, outcome_key, stake) ==
    LET r == [Idle EXCEPT !.op = "place_bet", !.snap = Store, !.user_id = user_id,
                  !.market_id = market_id, !.outcome_key = outcome_key, !.stake = stake]
        m == find_one(markets, oid(market_id))
    IN
    /\ req[p].pc = "idle"
    /\ req' = [req EXCEPT ![p] =
            IF oid(market_id) = 0 THEN Finish(p, r, "InvalidIdFormat")
            ELSE IF m = 0 THEN Finish(p, r, "MarketNotFound")
            ELSE IF NotOpen(markets[m]) THEN Finish(p, r, "MarketNotOpen")
            ELSE IF getOutcome(markets[m], outcome_key) = << >>
                 THEN Finish(p, r, "InvalidOutcome")
            ELSE [r EXCEPT !.pc = "find_user", !.market = m,
                      !.outcome = getOutcome(markets[m], outcome_key)]]
    /\ UNCHANGED <<users, markets, bets>>

\* The bet inserted before the user is looked up.
place_bet_insert_first(p) ==
    LET r == req[p] IN
    /\ r.pc = "find_user"
    /\ bets' = create_document(bets,
            [user_id |-> r.user_id, market_id |-> r.market_id,
             outcome_key |-> r.outcome_key, stake |-> r.stake,
             odds |-> r.outcome[1].odds, potential_payout |-> 0,
             status |-> "pending", placed_at |-> 1, updated_at |-> 0])
    /\ req' = [req EXCEPT ![p] =
            IF oid(r.user_id) = 0 THEN Finish(p, r, "InvalidIdFormat")
            ELSE IF find_one(users, oid(r.user_id)) = 0 THEN Finish(p, r, "UserNotFound")
            ELSE Finish(p, r, "ok")]
    /\ UNCHANGED <<users, markets>>

\* lines 141-143
place_bet_find_user(p) ==
    LET r == req[p] IN
    /\ r.pc = "find_user"
    /\ req' = [req EXCEPT ![p] =
            IF oid(r.user_id) = 0 THEN Finish(p, r, "InvalidIdFormat")
            ELSE IF find_one(users, oid(r.user_id)) = 0 THEN Finish(p, r, "UserNotFound")
            ELSE [r EXCEPT !.pc = "insert_bet"]]
    /\ UNCHANGED <<users, markets, bets>>

\* lines 146-159
place_bet_insert(p) ==
    LET r == req[p] IN
    /\ r.pc = "insert_bet"
    /\ \E potential \in Potential(r.stake, r.outcome[1].odds) :
          bets' = create_document(bets,
                [user_id |-> r.user_id, market_id |-> r.market_id,
                 outcome_key |-> r.outcome_key, stake |-> r.stake,
                 odds |-> r.outcome[1].odds, potential_payout |-> potential,
                 status |-> "pending", placed_at |-> 1, updated_at |-> 0])
    /\ req' = [req EXCEPT ![p] =
            Finish(p, [r EXCEPT !.writes = {<<"bet", Len(bets) + 1>>}], "ok")]
    /\ UNCHANGED <<users, markets>>

\* POST /api/markets/{market_id}/settle, lines 174-178
settle_market(p, market_id, settled_outcome_key) ==
    LET r == [Idle EXCEPT !.op = "settle_market", !.snap = Store,
                  !.market_id = market_id, !.outcome_key = settled_outcome_key]
        m == find_one(markets, oid(market_id))
    IN
    /\ req[p].pc = "idle"
    /\ req' = [req EXCEPT ![p] =
            IF oid(market_id) = 0 THEN Finish(p, r, "InvalidIdFormat")
            ELSE IF m = 0 THEN Finish(p, r, "MarketNotFound")
            ELSE IF NotOpen(markets[m]) THEN Finish(p, r, "MarketNotOpen")
            ELSE [r EXCEPT !.pc = "update_market", !.market = m]]
    /\ UNCHANGED <<users, markets, bets>>

\* line 181
settle_update_market(p) ==
    LET r == req[p] IN
    /\ r.pc = "update_market"
    /\ markets' = [markets EXCEPT ![r.market] = MarketSet(@, r.outcome_key)]
    /\ req' = [req EXCEPT ![p] = [r EXCEPT !.pc = "find_bets",
                                      !.writes = @ \cup {<<"market", r.market>>}]]
    /\ UNCHANGED <<users, bets>>

\* line 185 and the first step of the loop of line 186: the cursor's query
\* runs, the loop ends at once when nothing matches.
settle_find_bets(p) ==
    LET r == req[p]
        found == FindBets(bets, r.market_id)
    IN
    /\ r.pc = "find_bets"
    /\ req' = [req EXCEPT ![p] =
            IF found = << >> THEN Finish(p, r, "ok")
            ELSE [r EXCEPT !.pc = "update_bet", !.cursor = found]]
    /\ UNCHANGED <<users, markets, bets>>

\* lines 187-188, one pass of the loop; line 190 after the last one.
settle_update_bet(p) ==
    LET r == req[p]
        b == Head(r.cursor)
        w == [r EXCEPT !.cursor = Tail(@), !.writes = @ \cup {<<"bet", b._id>>}]
    IN
    /\ r.pc = "update_bet"
    /\ bets' = [bets EXCEPT ![b._id] = BetSet(@, new_status(b, r.outcome_key))]
    /\ req' = [req EXCEPT ![p] = IF Tail(r.cursor) = << >> THEN Finish(p, w, "ok") ELSE w]
    /\ UNCHANGED <<users, markets>>

\* line 188 when the store fails: update_one raises, the exception leaves the
\* loop and the handler, and the request is answered with a 500.
settle_update_bet_fails(p) ==
    /\ req[p].pc = "update_bet"
    /\ req' = [req EXCEPT ![p] = Finish(p, req[p], "StoreError")]
    /\ UNCHANGED <<users, markets, bets>>

\* The response has been sent; the slot is free for the next request.
respond(p) ==
    /\ req[p].pc = "done"
    /\ req' = [req EXCEPT ![p] = Idle]
    /\ UNCHANGED <<users, markets, bets>>

\* ------------------------------------------------------- specifications
Init ==
    /\ users = << >>
    /\ markets = << >>
    /\ bets = << >>
    /\ req = [p \in Procs |-> Idle]

\* place_bet requests that have not inserted their bet yet.
Placing == {q \in Procs : req[q].op = "place_bet" /\ req[q].pc # "done"}

\* The steps of request slot p, with the requests drawn from In.
Requests(p, In) ==
    \/ Len(users) < In.users /\ create_user(p)
    \/ /\ Len(markets) < In.markets
       /\ \E g \in In.game_types, o \in In.outcomes : create_market(p, g, o)
    \/ /\ Len(bets) + Cardinality(Placing) < In.bets
       /\ \E u \in In.user_ids, m \in In.market_ids, k \in In.keys, s \in In.stakes :
             place_bet(p, u, m, k, s)
    \/ place_bet_find_user(p)
    \/ place_bet_insert(p)
    \/ \E m \in In.market_ids, k \in In.keys : settle_market(p, m, k)
    \/ settle_update_market(p)
    \/ settle_find_bets(p)
    \/ settle_update_bet(p)
    \/ respond(p)

\* Requests served by concurrent workers: store operations interleave.
Next == \E p \in Procs : Requests(p, Concurrent)

Spec == Init /\ [][Next]_vars

\* Well-formed requests served one at a time by a single worker.
SeqNext == Requests(1, Plain)

SeqSpec == Init /\ [][SeqNext]_vars

\* Requests of every kind served one at a time by a single worker.
InputNext == Requests(1, Varied)

InputSpec == Init /\ [][InputNext]_vars

\* Well-formed requests served one at a time by a store whose bet updates may
\* fail; a response stays in its slot while the next request is served.
NoneRunning(p) == \A q \in Procs \ {p} : req[q].pc \in {"idle", "done"}

FailNext ==
    \E p \in Procs :
        \/ NoneRunning(p) /\ Requests(p, Concurrent)
        \/ NoneRunning(p) /\ settle_update_bet_fails(p)

FailSpec == Init /\ [][FailNext]_vars

\* ------------------------------------------------------------- claims
\* What a finished request p found when it started.
Done(p, op) == req[p].pc = "done" /\ req[p].op = op

\* The market a request named, as the store held it when the request started.
NamedBefore(p) == req[p].snap.markets[oid(req[p].market_id)]

NamesMarket(p) == oid(req[p].market_id) \in DOMAIN req[p].snap.markets

OutcomeKeys(m) == {m.outcomes[i].key : i \in DOMAIN m.outcomes}

\* C1: a settle_market(M, k) request on an open market, served alone, ends
\* ok with the market settled, every bet whose market_id is M won if its
\* outcome_key is k and lost otherwise, and every other bet as it was (also
\* when no bet names M).
C1_SettleResolves ==
    \A p \in Procs :
        (Done(p, "settle_market") /\ NamesMarket(p) /\ NamedBefore(p).status = "open")
        => /\ req[p].result = "ok"
           /\ markets[oid(req[p].market_id)].status = "settled"
           /\ Len(bets) = Len(req[p].snap.bets)
           /\ \A i \in DOMAIN bets :
                 IF bets[i].market_id = req[p].market_id
                 THEN bets[i].status =
                        (IF bets[i].outcome_key = req[p].outcome_key THEN "won" ELSE "lost")
                 ELSE bets[i] = req[p].snap.bets[i]

C1_Witness ==
    \E p \in Procs :
        /\ Done(p, "settle_market") /\ req[p].result = "ok"
        /\ \E i, j \in DOMAIN bets :
              /\ bets[i].market_id = req[p].market_id /\ bets[i].status = "won"
              /\ bets[j].market_id = req[p].market_id /\ bets[j].status = "lost"

\* C2: a settle_market request on a market that is not open ends with
\* MarketNotOpen, has written nothing, and leaves every document of the store
\* (the market's status, settled_outcome_key and settled_at, every bet's
\* status and updated_at) as it was.
C2_SettleNotOpenRejected ==
    \A p \in Procs :
        (Done(p, "settle_market") /\ NamesMarket(p) /\ NamedBefore(p).status # "open")
        => /\ req[p].result = "MarketNotOpen"
           /\ req[p].writes = {}
           /\ Store = req[p].snap

C2_Witness ==
    \E p \in Procs :
        /\ Done(p, "settle_market") /\ req[p].result = "MarketNotOpen"
        /\ NamedBefore(p).status = "settled"
        /\ NamedBefore(p).settled_outcome_key # req[p].outcome_key
        /\ \E i \in DOMAIN bets : oid(bets[i].market_id) = oid(req[p].market_id)

\* C3: of two settle_market requests on the same market that both found it
\* present and open when they started, exactly one ends ok and the other
\* ends with MarketNotOpen, and no bet is written by both.
C3_OneSettlementWins ==
    \A p, q \in Procs :
        (/\ p # q
         /\ Done(p, "settle_market") /\ Done(q, "settle_market")
         /\ oid(req[p].market_id) = oid(req[q].market_id)
         /\ NamesMarket(p) /\ NamedBefore(p).status = "open"
         /\ NamesMarket(q) /\ NamedBefore(q).status = "open")
        => /\ {req[p].result, req[q].result} = {"ok", "MarketNotOpen"}
           /\ {w \in req[p].writes \cap req[q].writes : w[1] = "bet"} = {}

\* C4: a place_bet request naming a market that is not open ends with
\* MarketNotOpen and the store is as it was, whatever its outcome_key,
\* user_id and stake.
C4_PlaceNotOpenRejected ==
    \A p \in Procs :
        (Done(p, "place_bet") /\ NamesMarket(p) /\ NamedBefore(p).status # "open")
        => /\ req[p].result = "MarketNotOpen"
           /\ req[p].writes = {}
           /\ Store = req[p].snap

C4_Witness ==
    \E p \in Procs :
        /\ Done(p, "place_bet") /\ req[p].result = "MarketNotOpen"
        /\ req[p].outcome_key \in OutcomeKeys(NamedBefore(p))
        /\ oid(req[p].user_id) \in DOMAIN users
        /\ req[p].stake > 0

\* C5: a place_bet request on an open market whose outcome_key is the key of
\* none of the market's outcomes ends with InvalidOutcome and the store is as
\* it was; and every stored bet's outcome_key is a key of its market's
\* outcomes.
C5_InvalidOutcomeRejected ==
    /\ \A p \in Procs :
          (/\ Done(p, "place_bet") /\ NamesMarket(p) /\ NamedBefore(p).status = "open"
           /\ req[p].outcome_key \notin OutcomeKeys(NamedBefore(p)))
          => /\ req[p].result = "InvalidOutcome"
             /\ req[p].writes = {}
             /\ Store = req[p].snap
    /\ \A i \in DOMAIN bets :
          /\ oid(bets[i].market_id) \in DOMAIN markets
          /\ bets[i].outcome_key \in OutcomeKeys(markets[oid(bets[i].market_id)])

C5_Witness ==
    \E p \in Procs :
        /\ Done(p, "place_bet") /\ req[p].result = "InvalidOutcome"
        /\ oid(req[p].user_id) \in DOMAIN users
        /\ req[p].stake > 0

\* C6: in every step each market keeps its outcomes, and its status either
\* stays or goes from open to settled; no market has status closed.
C6_MarketMonotonic ==
    [][/\ \A m \in DOMAIN markets :
             /\ m \in DOMAIN markets'
             /\ markets'[m].outcomes = markets[m].outcomes
             /\ \/ markets'[m].status = markets[m].status
                \/ markets[m].status = "open" /\ markets'[m].status = "settled"
       /\ \A m \in DOMAIN markets' : markets'[m].status \in {"open", "settled"}]_vars

C6_Witness ==
    \E m \in DOMAIN markets, p \in Procs :
        /\ markets[m].status = "settled"
        /\ Done(p, "settle_market") /\ req[p].result = "MarketNotOpen"
        /\ oid(req[p].market_id) = m

\* C7: in every step a bet whose status or updated_at is written was pending
\* and never written before, and becomes won or lost; no bet is refunded.
C7_BetResolvedOnce ==
    [][/\ \A i \in DOMAIN bets :
             /\ i \in DOMAIN bets'
             /\ (bets'[i].status # bets[i].status \/ bets'[i].updated_at # bets[i].updated_at)
                => /\ bets[i].status = "pending" /\ bets[i].updated_at = 0
                   /\ bets'[i].status \in {"won", "lost"}
       /\ \A i \in DOMAIN bets' : bets'[i].status \in {"pending", "won", "lost"}]_vars

C7_Witness ==
    \E i \in DOMAIN bets, p \in Procs :
        /\ bets[i].status \in {"won", "lost"} /\ bets[i].updated_at = 1
        /\ Done(p, "settle_market") /\ req[p].result = "ok"
        /\ oid(req[p].market_id) # oid(bets[i].market_id)

\* C8: in every step each stored bet keeps its user_id, market_id,
\* outcome_key, stake, odds, potential_payout and placed_at.
Terms(b) ==
    <<b.user_id, b.market_id, b.outcome_key, b.stake, b.odds, b.potential_payout,
      b.placed_at>>

C8_BetTermsFrozen ==
    [][\A i \in DOMAIN bets : i \in DOMAIN bets' /\ Terms(bets'[i]) = Terms(bets[i])]_vars

C8_Witness ==
    \E i \in DOMAIN bets :
        /\ bets[i].status = "lost" /\ bets[i].updated_at = 1
        /\ bets[i].potential_payout # 0

\* C9: a bet that place_bet inserts is pending, carries the odds of an outcome
\* of its market with its outcome_key, and its potential_payout is a two-place
\* decimal nearest to stake * odds (100 at 1.8 gives 180.00).
Nearest(payout, stake, odds) ==
    /\ 100 * payout - stake * odds <= 50
    /\ stake * odds - 100 * payout <= 50

C9_BetAsPlaced ==
    [][\A i \in DOMAIN bets' \ DOMAIN bets :
          LET b == bets'[i] IN
          /\ b.status = "pending"
          /\ \E o \in DOMAIN markets[oid(b.market_id)].outcomes :
                /\ markets[oid(b.market_id)].outcomes[o].key = b.outcome_key
                /\ markets[oid(b.market_id)].outcomes[o].odds = b.odds
          /\ Nearest(b.potential_payout, b.stake, b.odds)
          /\ (b.stake = 10000 /\ b.odds = 180) => b.potential_payout = 18000]_vars

C9_Witness ==
    \E i \in DOMAIN bets :
        /\ bets[i].stake = 7 /\ bets[i].odds = 180 /\ bets[i].potential_payout = 13
        /\ bets[i].status = "pending"

\* C10: a place_bet request whose stake is zero or negative is not accepted,
\* and every stored bet has a stake above zero.
C10_StakePositive ==
    /\ \A p \in Procs :
          (Done(p, "place_bet") /\ req[p].stake <= 0) => req[p].result # "ok"
    /\ \A i \in DOMAIN bets : bets[i].stake > 0

\* C11: every outcome of every stored market, and the odds of every stored
\* bet, are above 1.0 (a create_market request with odds of 1.0 or less
\* stores no market).
C11_OddsAboveOne ==
    /\ \A m \in DOMAIN markets : \A i \in DOMAIN markets[m].outcomes :
          markets[m].outcomes[i].odds > 100
    /\ \A i \in DOMAIN bets : bets[i].odds > 100

\* C12: a step of create_market(g, o) that stores a market stores it with
\* status open and with outcomes o, which are not empty and have pairwise
\* distinct keys.
DistinctKeys(o) == \A i, j \in DOMAIN o : o[i].key = o[j].key => i = j

C12_MarketAsCreated ==
    [][\A p \in Procs, g \in Varied.game_types, o \in Varied.outcomes :
          (create_market(p, g, o) /\ Len(markets') > Len(markets))
          => LET m == markets'[Len(markets')] IN
             /\ m.status = "open"
             /\ m.outcomes = o /\ o # << >>
             /\ DistinctKeys(m.outcomes)]_vars

\* C13: after every step a market has settled_outcome_key and settled_at set
\* exactly when its status is settled, and a step leaves a settled_outcome_key
\* that is set as it is.
C13_SettledOnce ==
    [][/\ \A m \in DOMAIN markets' :
             /\ markets'[m].status = "settled" <=> markets'[m].settled_outcome_key # None
             /\ markets'[m].status = "settled" <=> markets'[m].settled_at # 0
       /\ \A m \in DOMAIN markets :
             markets[m].settled_outcome_key # None
             => markets'[m].settled_outcome_key = markets[m].settled_outcome_key]_vars

C15_MarketSettledFirst ==
    /\ \A i \in DOMAIN bets :
          bets[i].status \in {"won", "lost"}
          => markets[oid(bets[i].market_id)].status = "settled"
    /\ \A p \in Procs :
          (req[p].op = "settle_market" /\ req[p].pc \in {"find_bets", "update_bet"})
          => /\ markets[req[p].market].status = "settled"
             /\ \A k \in DOMAIN req[p].cursor :
                   bets[req[p].cursor[k]._id].status = "pending"

C15_Witness ==
    \E p \in Procs, i \in DOMAIN bets :
        /\ req[p].op = "settle_market" /\ req[p].pc = "update_bet"
        /\ Len(req[p].cursor) = 1
        /\ bets[i].market_id = req[p].market_id /\ bets[i].status \in {"won", "lost"}
        /\ bets[req[p].cursor[1]._id].status = "pending"
        /\ markets[req[p].market].status = "settled"

\* C16: when a bet update of a settle_market run has failed and a later
\* settle_market request with the same market_id and key has been answered,
\* every bet with that market_id other than the one whose update failed is
\* won or lost (the run went on after the failure, or the later request
\* resolved what was left).
C16_SettlementCompletes ==
    \A p, q \in Procs :
        (/\ Done(p, "settle_market") /\ req[p].result = "StoreError"
         /\ Done(q, "settle_market") /\ req[q].result # "StoreError"
         /\ req[q].market_id = req[p].market_id
         /\ req[q].outcome_key = req[p].outcome_key
         /\ NamesMarket(q) /\ NamedBefore(q).status = "settled")
        => \A i \in DOMAIN bets :
              bets[i].market_id = req[p].market_id
              => \/ bets[i].status \in {"won", "lost"}
                 \/ i = Head(req[p].cursor)._id

\* C17: a won bet's market is settled with the bet's outcome_key as its
\* settled_outcome_key, and a lost bet's market is settled with another key.
C17_BetAgreesWithMarket ==
    \A i \in DOMAIN bets :
        LET m == markets[oid(bets[i].market_id)] IN
        /\ bets[i].status = "won"
           => m.status = "settled" /\ m.settled_outcome_key = bets[i].outcome_key
        /\ bets[i].status = "lost"
           => m.status = "settled" /\ m.settled_outcome_key # bets[i].outcome_key

\* C18: when a settle_market request has ended ok, no bet with its market_id
\* is pending.
C18_NoPendingAfterSettle ==
    \A p \in Procs :
        (Done(p, "settle_market") /\ req[p].result = "ok")
        => \A i \in DOMAIN bets :
              bets[i].market_id = req[p].market_id => bets[i].status # "pending"

\* C19: when a settle_market request has ended ok, no bet of the market its
\* market_id converts to is pending, whatever the spelling of the bet's
\* market_id.
C19_SettleResolvesAllSpellings ==
    \A p \in Procs :
        (Done(p, "settle_market") /\ req[p].result = "ok")
        => \A i \in DOMAIN bets :
              oid(bets[i].market_id) = oid(req[p].market_id)
              => bets[i].status \in {"won", "lost"}

\* C20: a request that ended with an error has written nothing and the store
\* is as it was when the request started; a place_bet request that ended ok
\* has appended one bet and left users, markets and the other bets as they
\* were.
Errors ==
    {"InvalidIdFormat", "MarketNotFound", "MarketNotOpen", "InvalidOutcome",
     "UserNotFound", "InvalidGameType", "EmptyOutcomes", "IncompleteOutcome"}

C20_FailuresChangeNothing ==
    \A p \in Procs :
        /\ (req[p].pc = "done" /\ req[p].result \in Errors)
           => req[p].writes = {} /\ Store = req[p].snap
        /\ (Done(p, "place_bet") /\ req[p].result = "ok")
           => /\ users = req[p].snap.users
              /\ markets = req[p].snap.markets
              /\ Len(bets) = Len(req[p].snap.bets) + 1
              /\ SubSeq(bets, 1, Len(bets) - 1) = req[p].snap.bets

C20_Witness ==
    \E p \in Procs :
        /\ Done(p, "place_bet") /\ req[p].result = "UserNotFound"
        /\ markets # << >>

====
